---- MODULE Spec2Model ----
(***************************************************************************)
(* Model of AuthService (services/auth): the strategy-selecting            *)
(* authentication gate isAuthorized / doAuthentication, the permission     *)
(* gate hasPermission and the token issuer createToken.                    *)
(*                                                                         *)
(* A request is a record that one gate middleware works on.  Time is       *)
(* counted in hours.  The Express continuation `next` is an external       *)
(* callable: every call is recorded with its argument ("none" for a call   *)
(* without error), and it may throw synchronously (nextThrows).            *)
(***************************************************************************)
EXTENDS Integers, Sequences, FiniteSets, TLC

(* ------------------------------ bounds -------------------------------- *)
\* number of requests in flight through hasPermission at the same time
NumReqs == 2
\* the clock runs from 0 to MaxTime hours
MaxTime == 10

(* --------------------------- program constants ------------------------ *)
\* expiresIn: '8h'
ExpiresIn == 8
\* res.status(403)
Forbidden == 403
\* the status of a denial by a verification mechanism
Unauthorized == 401
\* req.user is undefined: no identity attached
NoUser == 0
\* the id of User.mockTestUser()
mockTestUser == 1

Undefined == "undefined"
NoError == "none"

\* the values of env.NODE_ENV
Envs == {"test", "production"}
\* the PassportStrategy type: 'jwt' | 'basic'
PassportStrategy == {"jwt", "basic"}
\* what a caller can pass as a strategy at run time: nothing, the empty string,
\* a member of the type, a name outside it
StrategyArgs == {Undefined, "", "jwt", "basic", "oauth"}
\* what a caller can pass to the constructor
CtorArgs == {Undefined, "jwt", "basic", "oauth"}
\* user ids
Ids == {1, 2}
Resources == {"task"}
Actions == {"read", "delete"}
Triples == Ids \X Resources \X Actions
Reqs == 1..NumReqs
\* the synchronous handler of isAuthorized gates one request at a time
AuthReqs == {1}

strategyOptions ==
    [audience |-> "aionic-client", issuer |-> "aionic-core",
     secretOrKey |-> "aionic-secret-api-key"]

signOptions ==
    [audience |-> strategyOptions.audience, expiresIn |-> ExpiresIn,
     issuer |-> strategyOptions.issuer]

VARIABLES
    env,              \* env.NODE_ENV
    defaultStrategy,  \* AuthService.defaultStrategy
    nextThrows,       \* whether a call of the next step throws synchronously
    policy,           \* permissions.isAllowed as a table over the triples
    now,              \* the clock, in hours
    held,             \* the credential the client holds (the last token issued)
    reqs              \* the requests

vars == <<env, defaultStrategy, nextThrows, policy, now, held, reqs>>

(* ----------------------------- credentials ---------------------------- *)
Cred(kind, userID, aud, iss, iat, exp, key) ==
    [kind |-> kind, userID |-> userID, aud |-> aud, iss |-> iss,
     iat |-> iat, exp |-> exp, key |-> key]

Absent == Cred("absent", NoUser, "", "", 0, 0, "")
Malformed == Cred("malformed", NoUser, "", "", 0, 0, "")
\* well-formed Basic credentials of a known user
BasicGood == Cred("basic", 2, "", "", 0, 0, "")

\* sign({ userID }, secretOrKey, signOptions) at time t
createTokenNoExpiry(userID, t) ==
    Cred("bearer", userID, signOptions.audience, signOptions.issuer,
         t, t + signOptions.expiresIn + MaxTime + 2, strategyOptions.secretOrKey)

createToken(userID, t) ==
    Cred("bearer", userID, signOptions.audience, signOptions.issuer,
         t, t + signOptions.expiresIn, strategyOptions.secretOrKey)

\* a token signed by somebody else
Forged(c) == [c EXCEPT !.key = "other-key"]

\* the JWT mechanism, constructed with strategyOptions: signature, audience,
\* issuer and expiry are verified at time t
jwtVerify(c, t) ==
    /\ c.kind = "bearer"
    /\ c.key = strategyOptions.secretOrKey
    /\ c.aud = strategyOptions.audience
    /\ c.iss = strategyOptions.issuer
    /\ t < c.exp

\* the Basic mechanism
basicVerify(c) == c.kind = "basic"

(* ------------------------------ requests ------------------------------ *)
Idle ==
    [mw |-> "idle", pc |-> "idle", strategy |-> Undefined, cred |-> Absent,
     at |-> 0, user |-> NoUser, attachedBy |-> "none",
     resource |-> "", action |-> "",
     status |-> 0, body |-> "",
     gateNext |-> <<>>, mechNext |-> <<>>, mechRun |-> <<>>,
     evalCalls |-> <<>>, evalFailed |-> FALSE, thrown |-> NoError]

\* a call of next(arg) made by the gate: the call is recorded; when the next
\* step throws, the exception is in flight
CallNext(q, arg) ==
    [q EXCEPT !.gateNext = Append(@, arg),
              !.thrown = IF nextThrows THEN "NextThrew" ELSE NoError]

\* catch (err) { return next(err); }
Catch(q) ==
    IF q.thrown = NoError THEN q
    ELSE CallNext([q EXCEPT !.thrown = NoError], q.thrown)

Truthy(s) == s \notin {Undefined, ""}

\* constructor(defaultStrategy: PassportStrategy = 'jwt')
Constructor(arg) == IF arg = Undefined THEN "jwt" ELSE arg

(* ---------------------------- isAuthorized ---------------------------- *)
\* env.NODE_ENV !== 'test' is false: the gate is in bypass mode
BypassWhenNoCredential(q) == q.cred.kind = "absent"

BypassNever(q) == FALSE

Bypass(q) == env = "test"

\* const tempStrategy = strategy || this.defaultStrategy
SelectStrategyDefaultOnly(strategy) == defaultStrategy

SelectStrategy(strategy) == IF Truthy(strategy) THEN strategy ELSE defaultStrategy

RunMechanism(q, name) ==
    [q EXCEPT !.mechRun = Append(@, name), !.pc = "verifying"]

doAuthenticationFallThrough(q, strategy) ==
    Catch(CASE strategy = "basic" -> RunMechanism(q, "basic")
            [] OTHER -> RunMechanism(q, "jwt"))

doAuthentication(q, strategy) ==
    Catch(CASE strategy = "jwt" -> RunMechanism(q, "jwt")
            [] strategy = "basic" -> RunMechanism(q, "basic")
            [] OTHER -> [q EXCEPT !.thrown = "UnknownStrategy"])

\* the middleware returned by isAuthorized(strategy)
isAuthorizedHandler(q, strategy) ==
    Catch(IF ~Bypass(q)
          THEN doAuthentication(q, SelectStrategy(strategy))
          ELSE CallNext([q EXCEPT !.user = mockTestUser, !.attachedBy = "gate"],
                        NoError))

Settle(q) == IF q.pc = "verifying" /\ q.thrown = NoError THEN q
             ELSE [q EXCEPT !.pc = "done"]

\* a request carrying credential c reaches the middleware isAuthorized(strategy)
IsAuthorized(r, strategy, c) ==
    /\ reqs[r].pc = "idle"
    /\ reqs' = [reqs EXCEPT ![r] =
          Settle(isAuthorizedHandler(
              [Idle EXCEPT !.mw = "auth", !.strategy = strategy, !.cred = c,
                           !.at = now], strategy))]
    /\ UNCHANGED <<env, defaultStrategy, nextThrows, policy, now, held>>

\* the selected mechanism's verdict on the request
MechanismValid(q) ==
    IF q.mechRun[Len(q.mechRun)] = "jwt" THEN jwtVerify(q.cred, q.at)
    ELSE basicVerify(q.cred)

\* the mechanism answers: it attaches the user and calls next(), or rejects
\* through next(err) or with a 401 response
MechanismVerdict(q, how) ==
    IF MechanismValid(q)
    THEN [q EXCEPT !.user = q.cred.userID, !.attachedBy = "mechanism",
                   !.mechNext = Append(@, NoError), !.pc = "done"]
    ELSE IF how = "error"
    THEN [q EXCEPT !.mechNext = Append(@, "AuthFailure"), !.pc = "done"]
    ELSE [q EXCEPT !.status = Unauthorized, !.body = "Unauthorized",
                   !.pc = "done"]

MechanismDone(r, how) ==
    /\ reqs[r].pc = "verifying"
    /\ reqs' = [reqs EXCEPT ![r] = MechanismVerdict(reqs[r], how)]
    /\ UNCHANGED <<env, defaultStrategy, nextThrows, policy, now, held>>

\* the request is over; the slot takes the next one
Finish(r) ==
    /\ reqs[r].pc = "done"
    /\ reqs' = [reqs EXCEPT ![r] = Idle]
    /\ UNCHANGED <<env, defaultStrategy, nextThrows, policy, now, held>>

\* a client obtains a token for userID
CreateToken(userID) ==
    /\ held' = createToken(userID, now)
    /\ held' # held
    /\ UNCHANGED <<env, defaultStrategy, nextThrows, policy, now, reqs>>

Tick ==
    /\ now < MaxTime
    /\ now' = now + 1
    /\ UNCHANGED <<env, defaultStrategy, nextThrows, policy, held, reqs>>

\* the credentials a request can carry
Creds == {Absent, Malformed, BasicGood} \cup
         (IF held.kind = "bearer" THEN {held, Forged(held)} ELSE {})

Init ==
    /\ env \in Envs
    /\ defaultStrategy \in {Constructor(a) : a \in CtorArgs}
    /\ nextThrows \in BOOLEAN
    /\ policy = [t \in Triples |-> FALSE]
    /\ now = 0
    /\ held = Absent
    /\ reqs = [r \in Reqs |-> Idle]

Next ==
    \/ \E r \in AuthReqs, s \in StrategyArgs, c \in Creds : IsAuthorized(r, s, c)
    \/ \E r \in AuthReqs, how \in {"error", "deny"} : MechanismDone(r, how)
    \/ \E r \in AuthReqs : Finish(r)
    \/ \E u \in Ids : CreateToken(u)
    \/ Tick

Spec == Init /\ [][Next]_vars

(* ---------------------------- hasPermission --------------------------- *)
\* const { id } = req.user as User
ReqUserOfFirstRequest(r) == reqs[1].user

ReqUser(r) == reqs[r].user

\* if (env.NODE_ENV !== 'test') guards the whole check
PermBypass == env = "test"

\* permissions.isAllowed(id, resource, action), once it answers
isAllowed(t) == IF t \in DOMAIN policy THEN policy[t] ELSE FALSE

\* return res.status(403).json({ error: 'Missing user rights', status: 403 })
DenyUnauthorized(q) ==
    [q EXCEPT !.status = Unauthorized, !.body = "Missing user rights"]

Deny(q) == [q EXCEPT !.status = Forbidden, !.body = "Missing user rights"]

\* the middleware returned by hasPermission(resource, action), up to its await
hasPermissionCall(r) ==
    LET q == reqs[r]
    IN  IF ~PermBypass
        THEN IF ReqUser(r) = NoUser
             THEN [Catch([q EXCEPT !.thrown = "TypeError"]) EXCEPT !.pc = "done"]
             ELSE [q EXCEPT !.evalCalls =
                                Append(@, <<ReqUser(r), q.resource, q.action>>),
                            !.pc = "awaiting"]
        ELSE [Catch(CallNext(q, NoError)) EXCEPT !.pc = "done"]

\* if (!access) ... return next()
AfterAnswerInverted(q, access) ==
    IF access THEN Deny(q) ELSE Catch(CallNext(q, NoError))

AfterAnswer(q, access) ==
    IF ~access THEN Deny(q) ELSE Catch(CallNext(q, NoError))

\* catch (err) { return next(err); } around the awaited evaluator
AfterFailureSwallowed(q) ==
    CallNext([q EXCEPT !.evalFailed = TRUE], NoError)

AfterFailure(q) ==
    Catch([q EXCEPT !.evalFailed = TRUE, !.thrown = "EvaluatorError"])

\* the middleware after its await: the evaluator answered, or failed
hasPermissionResume(r, fail) ==
    LET q == reqs[r]
    IN  [(IF fail THEN AfterFailure(q)
          ELSE AfterAnswer(q, isAllowed(q.evalCalls[Len(q.evalCalls)])))
         EXCEPT !.pc = "done"]

\* the identities a prior step can have attached
AttachedUsers == {NoUser} \cup (IF env = "test" THEN {mockTestUser} ELSE Ids)

\* a request with req.user = user reaches the middleware
\* hasPermission(resource, action)
ArrivePerm(r, user, resource, action) ==
    /\ reqs[r].pc = "idle"
    /\ reqs' = [reqs EXCEPT ![r] =
          [Idle EXCEPT !.mw = "perm", !.pc = "start", !.user = user,
                       !.attachedBy = IF user = NoUser THEN "none" ELSE "prior",
                       !.resource = resource, !.action = action]]
    /\ UNCHANGED <<env, defaultStrategy, nextThrows, policy, now, held>>

HasPermission(r) ==
    /\ reqs[r].pc = "start"
    /\ reqs' = [reqs EXCEPT ![r] = hasPermissionCall(r)]
    /\ UNCHANGED <<env, defaultStrategy, nextThrows, policy, now, held>>

EvaluatorDone(r, fail) ==
    /\ reqs[r].pc = "awaiting"
    /\ reqs' = [reqs EXCEPT ![r] = hasPermissionResume(r, fail)]
    /\ UNCHANGED <<env, defaultStrategy, nextThrows, policy, now, held>>

InitPerm ==
    /\ env \in Envs
    /\ defaultStrategy = Constructor(Undefined)
    /\ nextThrows \in BOOLEAN
    /\ policy \in [Triples -> BOOLEAN]
    /\ now = 0
    /\ held = Absent
    /\ reqs = [r \in Reqs |-> Idle]

NextPerm ==
    \/ \E r \in Reqs, u \in AttachedUsers, res \in Resources, a \in Actions :
          ArrivePerm(r, u, res, a)
    \/ \E r \in Reqs : HasPermission(r)
    \/ \E r \in Reqs, fail \in BOOLEAN : EvaluatorDone(r, fail)
    \/ \E r \in Reqs : Finish(r)

SpecPerm == InitPerm /\ [][NextPerm]_vars

(* ======================= properties of hasPermission =================== *)
PermRan(r) == reqs[r].mw = "perm" /\ reqs[r].pc = "done"
OwnTriple(r) == <<reqs[r].user, reqs[r].resource, reqs[r].action>>
\* the evaluator's answer for the request's own triple is "no"
AnswersFalse(r) ==
    /\ reqs[r].user # NoUser
    /\ ~reqs[r].evalFailed
    /\ ~policy[OwnTriple(r)]
AnswersTrue(r) ==
    /\ reqs[r].user # NoUser
    /\ ~reqs[r].evalFailed
    /\ policy[OwnTriple(r)]
Is403(r) ==
    /\ reqs[r].status = 403
    /\ reqs[r].body = "Missing user rights"
    /\ reqs[r].gateNext = <<>>

\* C1, as stated: whenever the evaluator's answer for the request's triple is
\* false, hasPermission ends the request with the 403 body and does not call
\* the next step.
C1_DeniedAlways ==
    \A r \in Reqs : PermRan(r) /\ AnswersFalse(r) => Is403(r)

\* C1, amended: when NODE_ENV is not 'test' and the evaluator's answer for the
\* request's triple is false, hasPermission ends the request with exactly
\* status 403 and body error 'Missing user rights', and does not call next.
C1_DeniedOutsideTest ==
    \A r \in Reqs : env # "test" /\ PermRan(r) /\ AnswersFalse(r) => Is403(r)

C1_Witness ==
    \E r \in Reqs :
        /\ env # "test" /\ PermRan(r) /\ AnswersFalse(r)
        /\ reqs[r].evalCalls = <<OwnTriple(r)>>
        /\ reqs[r].status = 403

\* C2: whenever the evaluator's answer for the request's triple is true,
\* hasPermission calls next without an error argument (first, and as its only
\* call when next returns) and sets no status and writes no body.
C2_AllowedPassesOn ==
    \A r \in Reqs : PermRan(r) /\ AnswersTrue(r) =>
        /\ Len(reqs[r].gateNext) >= 1
        /\ reqs[r].gateNext[1] = "none"
        /\ (~nextThrows => reqs[r].gateNext = <<"none">>)
        /\ reqs[r].status = 0
        /\ reqs[r].body = ""

C2_Witness ==
    \E r \in Reqs :
        /\ env # "test" /\ PermRan(r) /\ AnswersTrue(r)
        /\ reqs[r].evalCalls = <<OwnTriple(r)>>
        /\ reqs[r].gateNext = <<"none">>

\* the failure of the check: no identity attached, or the evaluator failed
CheckFailure(r) ==
    IF reqs[r].user = NoUser THEN "TypeError"
    ELSE IF reqs[r].evalFailed THEN "EvaluatorError"
    ELSE "none"
ForwardedAsError(r) ==
    /\ Len(reqs[r].gateNext) >= 1
    /\ reqs[r].gateNext[1] = CheckFailure(r)
    /\ \A i \in 1..Len(reqs[r].gateNext) : reqs[r].gateNext[i] # "none"
    /\ reqs[r].status = 0

\* C6, as stated: for every request, a missing identity or a failing evaluator
\* makes hasPermission call next with that error; the request is neither
\* passed on without error nor answered 403.
C6_FailureAlwaysForwarded ==
    \A r \in Reqs : PermRan(r) /\ CheckFailure(r) # "none" => ForwardedAsError(r)

\* C6, amended: when NODE_ENV is not 'test', a missing identity or a failing
\* evaluator makes hasPermission call next with that error, never next()
\* without error and never the 403 (in test mode no check is made and the
\* request is passed on).
C6_FailureForwardedOutsideTest ==
    \A r \in Reqs :
        env # "test" /\ PermRan(r) /\ CheckFailure(r) # "none"
            => ForwardedAsError(r)

C6_Witness ==
    \E r \in Reqs :
        /\ env # "test" /\ PermRan(r)
        /\ reqs[r].evalFailed
        /\ reqs[r].gateNext[1] = "EvaluatorError"

C10_OwnIdentity ==
    \A r \in Reqs : reqs[r].mw = "perm" =>
        /\ \A i \in 1..Len(reqs[r].evalCalls) : reqs[r].evalCalls[i] = OwnTriple(r)
        /\ reqs[r].pc = "done" =>
              /\ reqs[r].status = 403 <=> (env # "test" /\ AnswersFalse(r))
              /\ (\E i \in 1..Len(reqs[r].gateNext) : reqs[r].gateNext[i] = "none")
                    <=> (env = "test" \/ AnswersTrue(r))

\* C10: under every interleaving of the requests at their awaits, the
\* evaluator is asked about the request's own identity, resource and action
\* only, the outcome of a request is decided by its own triple and the
\* evaluator's answer for it, and the default strategy never changes.
C10_Isolation ==
    /\ []C10_OwnIdentity
    /\ [][defaultStrategy' = defaultStrategy]_vars

C10_Witness ==
    /\ env # "test"
    /\ reqs[1].pc = "awaiting" /\ reqs[2].pc = "done"
    /\ reqs[1].user # reqs[2].user
    /\ policy[OwnTriple(1)] /\ reqs[2].status = 403
    /\ reqs[1].resource = reqs[2].resource /\ reqs[1].action = reqs[2].action

(* ======================= properties of isAuthorized ==================== *)
\* the handler of isAuthorized has run on the request
AuthRan(r) == reqs[r].mw = "auth" /\ reqs[r].pc \in {"verifying", "done"}
UnknownName(r) == reqs[r].strategy \notin {"jwt", "basic", "undefined"}
NoPlainNext(r) ==
    /\ \A i \in 1..Len(reqs[r].gateNext) : reqs[r].gateNext[i] # "none"
    /\ \A i \in 1..Len(reqs[r].mechNext) : reqs[r].mechNext[i] # "none"
RoutedToErrorPath(r) ==
    /\ Len(reqs[r].gateNext) >= 1
    /\ reqs[r].gateNext[1] = "UnknownStrategy"
    /\ NoPlainNext(r)
    /\ reqs[r].mechRun = <<>>
    /\ reqs[r].thrown # "UnknownStrategy"

\* C3, as stated: for every strategy name outside {'jwt', 'basic'} the
\* middleware calls next with an error, runs neither mechanism and lets no
\* unknown-strategy error escape.
C3_UnknownAlwaysRejected ==
    \A r \in AuthReqs : AuthRan(r) /\ UnknownName(r) => RoutedToErrorPath(r)

\* C3, amended: when NODE_ENV is not 'test', for every non-empty strategy name
\* outside {'jwt', 'basic'} the middleware calls next with the
\* unknown-strategy error, runs neither mechanism, attaches no identity and
\* lets no unknown-strategy error escape.
C3_UnknownRejectedOutsideTest ==
    \A r \in AuthReqs :
        env # "test" /\ AuthRan(r) /\ UnknownName(r) /\ reqs[r].strategy # ""
            => RoutedToErrorPath(r) /\ reqs[r].user = NoUser

C3_Witness ==
    \E r \in AuthReqs :
        /\ env # "test" /\ AuthRan(r) /\ reqs[r].strategy = "oauth"
        /\ reqs[r].gateNext = <<"UnknownStrategy">>
        /\ reqs[r].pc = "done"

\* C4: when NODE_ENV is 'test', whatever the strategy argument and the
\* credential, the middleware attaches the mock identity, calls next without
\* error and runs neither mechanism.
C4_BypassInTest ==
    \A r \in AuthReqs : env = "test" /\ AuthRan(r) =>
        /\ reqs[r].user = mockTestUser
        /\ reqs[r].attachedBy = "gate"
        /\ Len(reqs[r].gateNext) >= 1
        /\ reqs[r].gateNext[1] = "none"
        /\ reqs[r].mechRun = <<>>
        /\ reqs[r].pc = "done"

C4_Witness ==
    \E r \in AuthReqs :
        /\ env = "test" /\ AuthRan(r)
        /\ reqs[r].cred.kind = "malformed"
        /\ reqs[r].strategy = "basic"
        /\ reqs[r].gateNext = <<"none">>

\* C5: when NODE_ENV is not 'test', a request whose credential is absent or
\* malformed is never passed on: the gate attaches no identity and calls next
\* only with an error, and the request ends in the mechanism's rejection or
\* on the error path.
C5_NoBypassOutsideTest ==
    \A r \in AuthReqs :
        env # "test" /\ AuthRan(r) /\ reqs[r].cred.kind \in {"absent", "malformed"}
        =>  /\ reqs[r].attachedBy = "none"
            /\ reqs[r].user = NoUser
            /\ NoPlainNext(r)
            /\ reqs[r].pc = "done" =>
                  \/ Len(reqs[r].gateNext) >= 1
                  \/ reqs[r].mechNext = <<"AuthFailure">>
                  \/ reqs[r].status = 401

C5_Witness ==
    \E r \in AuthReqs :
        /\ env # "test" /\ AuthRan(r) /\ reqs[r].cred.kind = "absent"
        /\ reqs[r].pc = "done"
        /\ reqs[r].mechRun = <<"jwt">>
        /\ reqs[r].status = 401

\* the name the gate selects: the strategy argument when one is given (a
\* non-empty name), the default otherwise
Selected(r) ==
    IF reqs[r].strategy \in {"undefined", ""} THEN defaultStrategy
    ELSE reqs[r].strategy

\* C7, as stated: outside bypass mode exactly one mechanism runs for every
\* request: the one named by the strategy argument when one is given, the
\* default otherwise.
C7_ExactlyOneAlways ==
    \A r \in AuthReqs : env # "test" /\ AuthRan(r) =>
        reqs[r].mechRun = <<Selected(r)>>

\* C7, amended: outside bypass mode the selected name is the strategy argument
\* when one is given and the default otherwise; when the selected name is
\* 'jwt' or 'basic' exactly that mechanism runs, once, and the other does not;
\* when it is any other name neither mechanism runs.
C7_SelectedMechanismOnly ==
    \A r \in AuthReqs : env # "test" /\ AuthRan(r) =>
        reqs[r].mechRun =
            IF Selected(r) \in {"jwt", "basic"} THEN <<Selected(r)>> ELSE <<>>

C7_Witness ==
    \E r \in AuthReqs :
        /\ env # "test" /\ AuthRan(r)
        /\ defaultStrategy = "jwt"
        /\ reqs[r].strategy = "basic"
        /\ reqs[r].mechRun = <<"basic">>
        /\ reqs[r].pc = "done"

(* ========================= properties of createToken =================== *)
IssuedRight ==
    held.kind = "bearer" =>
        /\ held.userID \in Ids
        /\ held.aud = "aionic-client"
        /\ held.iss = "aionic-core"
        /\ held.exp = held.iat + 8
        /\ held.key = strategyOptions.secretOrKey
\* the request carried a token of createToken to isAuthorized('jwt')
JwtRan(r) ==
    /\ reqs[r].mw = "auth" /\ reqs[r].pc = "done"
    /\ reqs[r].strategy = "jwt"
    /\ reqs[r].cred.kind = "bearer"
    /\ reqs[r].cred.key = "aionic-secret-api-key"
PassedOn(r) ==
    \/ \E i \in 1..Len(reqs[r].gateNext) : reqs[r].gateNext[i] = "none"
    \/ \E i \in 1..Len(reqs[r].mechNext) : reqs[r].mechNext[i] = "none"
Elapsed(r) == reqs[r].at - reqs[r].cred.iat

\* C8, as stated: a token of createToken carries {userID}, the audience, the
\* issuer and an 8-hour expiry, and isAuthorized('jwt') passes it on before 8
\* hours have elapsed since issuance and rejects it after.
C8_EightHoursAlways ==
    /\ IssuedRight
    /\ \A r \in AuthReqs : JwtRan(r) =>
          /\ Elapsed(r) < 8 => PassedOn(r)
          /\ Elapsed(r) > 8 => ~PassedOn(r)

\* C8, amended: a token of createToken carries {userID}, the audience, the
\* issuer and an 8-hour expiry; when NODE_ENV is not 'test', isAuthorized('jwt')
\* accepts it as its user before 8 hours have elapsed since issuance and
\* rejects it after (in test mode every request is passed on as the mock user).
C8_EightHoursOutsideTest ==
    /\ IssuedRight
    /\ \A r \in AuthReqs : env # "test" /\ JwtRan(r) =>
          /\ Elapsed(r) < 8 =>
                /\ reqs[r].user = reqs[r].cred.userID
                /\ reqs[r].mechNext = <<"none">>
                /\ reqs[r].status = 0
          /\ Elapsed(r) > 8 => ~PassedOn(r) /\ reqs[r].user = NoUser

C8_Witness ==
    \E r \in AuthReqs :
        /\ env # "test" /\ JwtRan(r)
        /\ Elapsed(r) > 8
        /\ reqs[r].mechRun = <<"jwt">>
        /\ ~PassedOn(r)

(* ============================ one-shot gates =========================== *)
\* C9: for every request each gate middleware runs the mechanism or asks the
\* evaluator at most once and reports at most one outcome: next is called at
\* most once, also when a call of next throws.
C9_OneShot ==
    \A r \in Reqs :
        /\ Len(reqs[r].mechRun) <= 1
        /\ Len(reqs[r].evalCalls) <= 1
        /\ Len(reqs[r].gateNext) + Len(reqs[r].mechNext)
              + (IF reqs[r].status # 0 THEN 1 ELSE 0) <= 1

====
